---- MODULE Spec2Model ----
(***************************************************************************)
(* Model of xitren::containers::circular_buffer<T, Size>                   *)
(* (include/xitren/circular_buffer.hpp): a fixed-capacity ring buffer with *)
(* a write cursor tail_, an occupancy size_ and a backing array data_.     *)
(* A buffer value is the record [data_, tail_, size_]; every member        *)
(* function is an operator from buffer records to buffer records, every    *)
(* call of the public surface is one action.                               *)
(***************************************************************************)
EXTENDS Integers, Sequences, FiniteSets, TLC

(* ------------------------------- bounds -------------------------------- *)
\* capacities 1..MaxSize are instantiated
MaxSize == 3
\* element values are 0..MaxVal
MaxVal == 1
\* calls that would move tail_ past MaxTail are not taken
MaxTail == 8
\* longest sequence handed to << and >>
MaxSeq == 3
\* width of size_type in the model; tail_ stays below 2^WordBits
WordBits == 5

Word == 2 ^ WordBits
Values == 0 .. MaxVal
Seqs == UNION {[1 .. n -> Values] : n \in 0 .. MaxSeq}
\* destination containers as the caller hands them in: any length, one filler
Dests == {[i \in 1 .. n |-> v] : n \in 0 .. MaxSeq, v \in Values}

VARIABLES
    Size,      \* template parameter: the capacity
    buffer,    \* the circular_buffer object: [data_, tail_, size_]
    op,        \* the call that has just returned, "idle" between two calls
    arg,       \* its integral argument (item, head_next, count, slot)
    seq_arg,   \* its sequence argument as passed (in_data, out_data before)
    out_data,  \* the destination container after buffer >> out_data
    pre,       \* the buffer before the call
    ret,       \* the value the call returned (0 when it returns none)
    dma,       \* external writer: [pos, cnt] physical position, writes since
               \* the last reconciliation; [pending, ok] the values written
               \* and not yet read, while the writer kept within its limits
    pre_dma,   \* the writer before the call
    stream     \* producer/consumer bookkeeping: serial of the next push, of
               \* the last value read, pushes onto a full buffer since then

vars ==
    <<Size, buffer, op, arg, seq_arg, out_data, pre, ret, dma, pre_dma, stream>>

Min(a, b) == IF a < b THEN a ELSE b

(* ------------------------- circular_buffer ----------------------------- *)

\* physical slot of data(index)
data(index) == index % Size

head(b) == (b.tail_ - b.size_ + Word) % Word

tail(b) == b.tail_

size(b) == b.size_

capacity == Size

empty(b) == b.size_ = 0

full(b) == b.size_ >= Size

\* mutant: clear forgets the cursor
clear_size_only(b) == [b EXCEPT !.size_ = 0]

clear(b) == [b EXCEPT !.size_ = 0, !.tail_ = 0]

\* mutant: front() hands out the newest element
front_newest(b) == b.data_[data((b.tail_ - 1 + Word) % Word)]

front(b) == b.data_[data(head(b))]

back(b) == b.data_[data((b.tail_ - 1 + Word) % Word)]

\* mutant: the index is taken from the start of the storage, not from head()
at_physical(b, index) == b.data_[data(index % Word)]

\* operator[](index)
at(b, index) == b.data_[data((head(b) + index) % Word)]

\* mutant: the cursor is not advanced
push_no_advance(b, item) ==
    [data_ |-> [b.data_ EXCEPT ![data(b.tail_)] = item],
     tail_ |-> b.tail_,
     size_ |-> Min((b.size_ + 1) % Word, Size)]

\* mutant: the cursor skips a slot
push_skip_slot(b, item) ==
    [data_ |-> [b.data_ EXCEPT ![data(b.tail_)] = item],
     tail_ |-> (b.tail_ + 2) % Word,
     size_ |-> Min((b.size_ + 1) % Word, Size)]

\* mutant: the clamp of size_ is missing
push_noclamp(b, item) ==
    [data_ |-> [b.data_ EXCEPT ![data(b.tail_)] = item],
     tail_ |-> (b.tail_ + 1) % Word,
     size_ |-> (b.size_ + 1) % Word]

\* mutant: the item is stored after the cursor moved
push_late(b, item) ==
    [data_ |-> [b.data_ EXCEPT ![data((b.tail_ + 1) % Word)] = item],
     tail_ |-> (b.tail_ + 1) % Word,
     size_ |-> Min((b.size_ + 1) % Word, Size)]

push(b, item) ==
    [data_ |-> [b.data_ EXCEPT ![data(b.tail_)] = item],
     tail_ |-> (b.tail_ + 1) % Word,
     size_ |-> Min((b.size_ + 1) % Word, Size)]

\* mutant: the popped slot is wiped
pop_zeroing(b) ==
    [b EXCEPT !.size_ = (b.size_ - (IF empty(b) THEN 0 ELSE 1) + Word) % Word,
              !.data_ = IF empty(b) THEN b.data_
                        ELSE [b.data_ EXCEPT ![data(head(b))] = 0]]

\* mutant: the decrement is not gated by !empty()
pop_unguarded(b) == [b EXCEPT !.size_ = (b.size_ - 1 + Word) % Word]

\* mutant: removes the newest element instead of the oldest
pop_newest(b) ==
    [b EXCEPT !.size_ = (b.size_ - (IF empty(b) THEN 0 ELSE 1) + Word) % Word,
              !.tail_ = (b.tail_ - (IF empty(b) THEN 0 ELSE 1) + Word) % Word]

\* size_ -= 1 && !empty();
pop(b) ==
    [b EXCEPT !.size_ = (b.size_ - (IF empty(b) THEN 0 ELSE 1) + Word) % Word]

\* iterator positions
begin(b) == 0

\* circular_buffer_iterator::operator*
deref(b, pos) == at(b, pos)

RECURSIVE walk(_, _, _)
\* for (it = first; it != last; ++it) visiting *it
walk(b, iter, last) ==
    IF iter # last
    THEN <<deref(b, iter)>> \o walk(b, (iter + 1) % Word, last)
    ELSE <<>>

end(b) == b.size_

\* mutant: the run ends one slot late
size_circle_end_late(b) ==
    LET lap_end == (((head(b) \div Size) + 1) * Size) % Word
    IN  Min(b.size_, (lap_end - head(b) + 1 + Word) % Word)

\* mutant: the contiguous run is taken to be the whole content
size_circle_end_all(b) == b.size_

size_circle_end(b) ==
    LET lap_end == (((head(b) \div Size) + 1) * Size) % Word
    IN  Min(b.size_, (lap_end - head(b) + Word) % Word)

mend(b) == size_circle_end(b)

\* mutant: the wrapped distance is applied with its sign
update_head_signed(b, head_next) ==
    LET t   == b.tail_ % Size
        hn  == head_next % Size
        inc == IF t > hn THEN (Size - t + hn) % Word ELSE (hn - t) % Word
    IN  [b EXCEPT !.size_ = Min((b.size_ + inc) % Word, Size),
                  !.tail_ = (b.tail_ + hn - t + Word) % Word]

\* mutant: a wrapped writer is measured from slot 0
update_head_no_wrap(b, head_next) ==
    LET t   == b.tail_ % Size
        hn  == head_next % Size
        inc == IF t > hn THEN hn ELSE (hn - t) % Word
    IN  [b EXCEPT !.size_ = Min((b.size_ + inc) % Word, Size),
                  !.tail_ = (b.tail_ + inc) % Word]

\* mutant: the advance stops one slot short
update_head_one_short(b, head_next) ==
    LET t   == b.tail_ % Size
        hn  == head_next % Size
        d   == IF t > hn THEN (Size - t + hn) % Word ELSE (hn - t) % Word
        inc == IF d > 0 THEN d - 1 ELSE 0
    IN  [b EXCEPT !.size_ = Min((b.size_ + inc) % Word, Size),
                  !.tail_ = (b.tail_ + inc) % Word]

\* mutant: head_next is not reduced modulo Size
update_head_raw(b, head_next) ==
    LET t   == b.tail_ % Size
        hn  == head_next
        inc == IF t > hn THEN (Size - t + hn) % Word ELSE (hn - t) % Word
    IN  [b EXCEPT !.size_ = Min((b.size_ + inc) % Word, Size),
                  !.tail_ = (b.tail_ + inc) % Word]

\* mutant: size_ grows, tail_ stays
update_head_size_only(b, head_next) ==
    LET t   == b.tail_ % Size
        hn  == head_next % Size
        inc == IF t > hn THEN (Size - t + hn) % Word ELSE (hn - t) % Word
    IN  [b EXCEPT !.size_ = Min((b.size_ + inc) % Word, Size)]

\* mutant: equal positions count as a full lap
update_head_full_lap(b, head_next) ==
    LET t   == b.tail_ % Size
        hn  == head_next % Size
        inc == IF t >= hn THEN (Size - t + hn) % Word ELSE (hn - t) % Word
    IN  [b EXCEPT !.size_ = Min((b.size_ + inc) % Word, Size),
                  !.tail_ = (b.tail_ + inc) % Word]

update_head(b, head_next) ==
    LET t   == b.tail_ % Size
        hn  == head_next % Size
        inc == IF t > hn THEN (Size - t + hn) % Word ELSE (hn - t) % Word
    IN  [b EXCEPT !.size_ = Min((b.size_ + inc) % Word, Size),
                  !.tail_ = (b.tail_ + inc) % Word]

(* --------------------------- free operators ---------------------------- *)

RECURSIVE shl(_, _)
\* operator<<(buffer, in_data)
shl(b, in_data) ==
    IF in_data = <<>> THEN b
    ELSE shl(push(b, Head(in_data)), Tail(in_data))

RECURSIVE shr_loop(_, _, _)
shr_loop(b, iter, last) ==
    IF iter < last THEN shr_loop(pop(b), iter + 1, last) ELSE b

RECURSIVE shr_live_loop(_, _, _)
shr_live_loop(b, iter, n) ==
    IF iter < n /\ iter < b.size_ THEN shr_live_loop(pop(b), iter + 1, n)
    ELSE b

\* mutant: the loop bound follows the shrinking end()
shr_n_live_end(b, n) == shr_live_loop(b, 0, n)

\* operator>>(buffer, std::size_t size)
shr_n(b, n) == shr_loop(b, begin(b), begin(b) + n)

RECURSIVE drain_partial_loop(_, _, _)
drain_partial_loop(b, out, i) ==
    IF i > Len(out) \/ empty(b) THEN [buffer |-> b, out_data |-> out]
    ELSE drain_partial_loop(pop(b), [out EXCEPT ![i] = front(b)], i + 1)

\* mutant: no size check, fills as much as there is
shr_seq_partial(b, out) == drain_partial_loop(b, out, 1)

RECURSIVE drain_loop(_, _, _)
drain_loop(b, out, i) ==
    IF i > Len(out) THEN [buffer |-> b, out_data |-> out]
    ELSE drain_loop(pop(b), [out EXCEPT ![i] = front(b)], i + 1)

\* mutant: every item receives the element that was oldest at the call
RECURSIVE drain_stale_loop(_, _, _, _)
drain_stale_loop(b, out, i, v) ==
    IF i > Len(out) THEN [buffer |-> b, out_data |-> out]
    ELSE drain_stale_loop(pop(b), [out EXCEPT ![i] = v], i + 1, v)

shr_seq_stale(b, out) ==
    IF b.size_ < Len(out) THEN [buffer |-> b, out_data |-> out]
    ELSE drain_stale_loop(b, out, 1, front(b))

\* operator>>(buffer, Array& out_data)
shr_seq(b, out) ==
    IF b.size_ < Len(out) THEN [buffer |-> b, out_data |-> out]
    ELSE drain_loop(b, out, 1)

\* range-for over the buffer: the elements from begin() to end()
iterate(b) == walk(b, begin(b), end(b))

RECURSIVE eq_loop(_, _, _, _)
\* res = res & (item == (*(iter++)));
eq_loop(b, in_data, iter, res) ==
    IF in_data = <<>> THEN res
    ELSE eq_loop(b, Tail(in_data), (iter + 1) % Word,
                 res /\ (Head(in_data) = deref(b, iter)))

\* operator==(buffer, in_data); res is declared without an initial value
equals(b, in_data, res0) == eq_loop(b, in_data, begin(b), res0)

\* rbegin() and rend() are declared to return iterator: the forward iterator
\* at position size_ and the one at position 0
rbegin(b) == b.size_

rend(b) == 0

\* the elements visited from rbegin() to rend()
reverse_iterate(b) == walk(b, rbegin(b), rend(b))

(* ------------------------------ the state ------------------------------ *)

\* the logical content operator[](0) .. operator[](size-1)
content(b) == [i \in 1 .. b.size_ |-> at(b, i - 1)]

\* the call keeps tail_ within the explored range
Bounded(k) == buffer.tail_ + k <= MaxTail

Init ==
    /\ Size \in 1 .. MaxSize
    /\ \E d \in [0 .. Size - 1 -> Values] :
           buffer = [data_ |-> d, tail_ |-> 0, size_ |-> 0]
    /\ op = "idle"
    /\ arg = 0
    /\ seq_arg = <<>>
    /\ out_data = <<>>
    /\ pre = buffer
    /\ ret = 0
    /\ dma = [pos |-> 0, cnt |-> 0, pending |-> <<>>, ok |-> TRUE]
    /\ pre_dma = dma
    /\ stream = [next |-> 1, last |-> 0, drops |-> 0,
                 prev_last |-> 0, prev_drops |-> 0]

\* one call by the (sequential) caller: it is made when no call is under
\* observation, and its arguments, its result and the buffer before it are
\* kept until Return
CallRet(name, n, s, b, out, r) ==
    /\ op = "idle"
    /\ op' = name
    /\ arg' = n
    /\ seq_arg' = s
    /\ out_data' = out
    /\ pre' = buffer
    /\ buffer' = b
    /\ ret' = r
    /\ pre_dma' = dma
    /\ UNCHANGED Size

\* a call that returns no value (or the buffer itself)
Call(name, n, s, b, out) == CallRet(name, n, s, b, out, 0)

Push ==
    /\ Bounded(1)
    /\ \E item \in Values : Call("push", item, <<>>, push(buffer, item), <<>>)
    /\ UNCHANGED <<dma, stream>>

Pop ==
    /\ Call("pop", 0, <<>>, pop(buffer), <<>>)
    /\ UNCHANGED <<dma, stream>>

Clear ==
    /\ Call("clear", 0, <<>>, clear(buffer), <<>>)
    /\ UNCHANGED <<dma, stream>>

UpdateHead ==
    /\ op = "idle"
    /\ Bounded(Size)
    /\ \E head_next \in 0 .. 2 * Size :
           Call("update_head", head_next, <<>>,
                update_head(buffer, head_next), <<>>)
    /\ UNCHANGED <<dma, stream>>

ShiftIn ==
    /\ op = "idle"
    /\ \E in_data \in Seqs :
           /\ Bounded(Len(in_data))
           /\ Call("<<", 0, in_data, shl(buffer, in_data), <<>>)
    /\ UNCHANGED <<dma, stream>>

ShiftOutN ==
    /\ op = "idle"
    /\ \E n \in 0 .. MaxSeq : Call(">>n", n, <<>>, shr_n(buffer, n), <<>>)
    /\ UNCHANGED <<dma, stream>>

ShiftOutSeq ==
    /\ op = "idle"
    /\ \E out \in Dests :
           LET r == shr_seq(buffer, out)
           IN  Call(">>seq", 0, out, r.buffer, r.out_data)
    /\ UNCHANGED <<dma, stream>>

\* a store through storage() into one backing slot
StorageWrite ==
    /\ op = "idle"
    /\ \E slot \in 0 .. Size - 1, v \in Values :
           Call("storage", slot, <<v>>,
                [buffer EXCEPT !.data_[slot] = v], <<>>)
    /\ UNCHANGED <<dma, stream>>

\* buffer == in_data; res0 is the value the uninitialised local res holds
Equals ==
    /\ op = "idle"
    /\ \E in_data \in {q \in Seqs : Len(q) <= 2}, res0 \in BOOLEAN :
           CallRet("==", 0, in_data, buffer, <<>>,
                   equals(buffer, in_data, res0))
    /\ UNCHANGED <<dma, stream>>

\* the caller drops the arguments and results of the call that returned
Return ==
    /\ op # "idle"
    /\ op' = "idle"
    /\ arg' = 0
    /\ seq_arg' = <<>>
    /\ out_data' = <<>>
    /\ pre' = buffer
    /\ ret' = 0
    /\ pre_dma' = dma
    /\ UNCHANGED <<Size, buffer, dma, stream>>

Next ==
    \/ Push
    \/ Pop
    \/ Clear
    \/ UpdateHead
    \/ ShiftIn
    \/ ShiftOutN
    \/ ShiftOutSeq
    \/ StorageWrite
    \/ Equals
    \/ Return

Spec == Init /\ [][Next]_vars

(* --------------------------- external writer --------------------------- *)

\* the hardware stores one element at its position and moves on; at most one
\* lap is written between two reconciliations
DmaWrite ==
    /\ op = "idle"
    /\ dma.cnt < Size
    /\ \E v \in Values :
           /\ buffer' = [buffer EXCEPT !.data_[dma.pos] = v]
           /\ op' = "dma_write"
           /\ arg' = v
           /\ LET p    == Append(dma.pending, v)
                  good == dma.ok /\ dma.cnt + 1 < Size /\ Len(p) <= Size
              IN  dma' = [pos |-> (dma.pos + 1) % Size, cnt |-> dma.cnt + 1,
                          pending |-> IF good THEN p ELSE <<>>, ok |-> good]
    /\ seq_arg' = <<>>
    /\ out_data' = <<>>
    /\ pre' = buffer
    /\ ret' = 0
    /\ pre_dma' = dma
    /\ UNCHANGED <<Size, stream>>

\* the software reads the writer's position and calls update_head with it
Reconcile ==
    /\ Bounded(Size)
    /\ Call("update_head", dma.pos, <<>>, update_head(buffer, dma.pos), <<>>)
    /\ dma' = [dma EXCEPT !.cnt = 0]
    /\ UNCHANGED stream

\* the software reads front() and pops it
DmaConsume ==
    /\ ~empty(buffer)
    /\ CallRet("consume", 0, <<>>, pop(buffer), <<>>, front(buffer))
    /\ dma' = [dma EXCEPT !.pending = IF @ = <<>> THEN @ ELSE Tail(@)]
    /\ UNCHANGED stream

NextDma ==
    \/ DmaWrite
    \/ Reconcile
    \/ DmaConsume
    \/ Return

SpecDma == Init /\ [][NextDma]_vars

(* ------------------------- producer and consumer ----------------------- *)

\* the k-th value the producer pushes
Serial(k) == MaxVal + k

\* the producer pushes its next value
Produce ==
    /\ Bounded(1)
    /\ Call("push", Serial(stream.next), <<>>,
            push(buffer, Serial(stream.next)), <<>>)
    /\ stream' = [stream EXCEPT !.next = @ + 1,
                                !.drops = @ + (IF full(buffer) THEN 1 ELSE 0)]
    /\ UNCHANGED dma

\* the consumer, when the buffer is not empty, reads front() and pops it
Consume ==
    /\ ~empty(buffer)
    /\ CallRet("consume", 0, <<>>, pop(buffer), <<>>, front(buffer))
    /\ stream' = [next |-> stream.next,
                  last |-> front(buffer) - MaxVal,
                  drops |-> 0,
                  prev_last |-> stream.last,
                  prev_drops |-> stream.drops]
    /\ UNCHANGED dma

NextStream ==
    \/ Produce
    \/ Consume
    \/ Return

SpecStream == Init /\ [][NextStream]_vars

(* ------------------------ size_type wrap-around ------------------------ *)

\* push with tail_ free to run over the top of size_type
WrapPush ==
    /\ op = "idle"
    /\ \E item \in Values : Call("push", item, <<>>, push(buffer, item), <<>>)
    /\ UNCHANGED <<dma, stream>>

\* update_head with tail_ free to run over the top of size_type
WrapUpdateHead ==
    /\ op = "idle"
    /\ \E head_next \in 0 .. Size - 1 :
           Call("update_head", head_next, <<>>,
                update_head(buffer, head_next), <<>>)
    /\ UNCHANGED <<dma, stream>>

NextWrap ==
    \/ WrapPush
    \/ WrapUpdateHead
    \/ Pop
    \/ Return

SpecWrap == Init /\ [][NextWrap]_vars

(* ------------------------------ properties ----------------------------- *)

LastN(s, n) == IF Len(s) <= n THEN s ELSE SubSeq(s, Len(s) - n + 1, Len(s))

\* forward distance from physical position t to physical position p
Distance(t, p) == ((p % Size) - (t % Size) + Size) % Size

\* the occupied range runs past the physical end of the storage
Wraps(b) == (head(b) % Size) + b.size_ > Size

\* C1: after every call size() <= Capacity, and a push onto a full buffer
\* leaves size() == Capacity.
C1_SizeWithinCapacity ==
    /\ buffer.size_ <= Size
    /\ (op = "push" /\ pre.size_ = Size) => buffer.size_ = Size

C1_Witness == op = "push" /\ pre.size_ = Size /\ buffer.size_ = Size

\* C2: push(v) appends v to the logical content and drops the oldest element
\* when the buffer was full; buffer << seq leaves the last min(k + n, Capacity)
\* elements of the old content followed by seq, whatever tail was.
C2_OverwriteOldest ==
    /\ op = "push" =>
           content(buffer) = IF pre.size_ < Size
                             THEN Append(content(pre), arg)
                             ELSE Append(Tail(content(pre)), arg)
    /\ op = "<<" => content(buffer) = LastN(content(pre) \o seq_arg, Size)

C2_Witness ==
    /\ op = "<<"
    /\ empty(pre)
    /\ pre.tail_ % Size # 0
    /\ Len(seq_arg) > Size
    /\ content(buffer) = LastN(seq_arg, Size)

\* C3: pop() on an empty buffer changes nothing: size stays 0, tail and every
\* storage slot keep their values, for every value of tail.
C3_PopEmptyNoop == (op = "pop" /\ pre.size_ = 0) => buffer = pre

C3_Witness ==
    /\ op = "pop"
    /\ pre.size_ = 0
    /\ pre.tail_ % Size # 0
    /\ buffer.size_ = 0

\* C4: on a non-empty buffer front() is the oldest element and pop() removes
\* exactly that element: the content loses its first element and size drops
\* by one.
C4_FifoRemoval ==
    (op = "pop" /\ pre.size_ > 0) =>
        /\ front(pre) = Head(content(pre))
        /\ content(buffer) = Tail(content(pre))
        /\ buffer.size_ = pre.size_ - 1

C4_Witness ==
    /\ op = "pop"
    /\ pre.size_ >= 2
    /\ Wraps(pre)
    /\ buffer.size_ = pre.size_ - 1

\* C5: update_head(p) advances tail and size by
\* d = ((p mod Capacity) - (tail mod Capacity)) mod Capacity, 0 <= d < Capacity,
\* and clamps size to Capacity; in the wrap case
\* d = Capacity - (tail mod Capacity) + (p mod Capacity).
C5_UpdateHeadDistance ==
    op = "update_head" =>
        LET d == Distance(pre.tail_, arg)
        IN  /\ 0 <= d /\ d < Size
            /\ buffer.tail_ = pre.tail_ + d
            /\ buffer.size_ = Min(pre.size_ + d, Size)
            /\ (arg % Size < pre.tail_ % Size) =>
                   d = Size - (pre.tail_ % Size) + (arg % Size)

C5_Witness ==
    /\ op = "update_head"
    /\ arg >= Size
    /\ arg % Size < pre.tail_ % Size
    /\ pre.size_ > 0
    /\ buffer.tail_ > pre.tail_

\* C6: on an empty buffer with physical tail position t, update_head(p) makes
\* the logical content the backing slots t, t+1, ..., p-1 (modulo Capacity) in
\* that order, size() their count, and leaves the storage as it was written.
C6_UpdateHeadExposesStorage ==
    (op = "update_head" /\ empty(pre)) =>
        LET t == pre.tail_ % Size
            n == Distance(pre.tail_, arg)
        IN  /\ buffer.size_ = n
            /\ content(buffer) = [i \in 1 .. n |-> pre.data_[(t + i - 1) % Size]]
            /\ buffer.data_ = pre.data_

C6_Witness ==
    /\ op = "update_head"
    /\ empty(pre)
    /\ pre.tail_ % Size # 0
    /\ buffer.size_ >= 2
    /\ front(buffer) = pre.data_[pre.tail_ % Size]

\* C7 as stated: after the writer has advanced by exactly Capacity slots,
\* update_head with its position advances tail and size by Capacity and
\* leaves the buffer full, unlike an advance by 0 slots.
C7_LapDistinguished ==
    (op = "update_head" /\ pre_dma.cnt = Size /\ arg = pre_dma.pos) =>
        /\ buffer.tail_ = pre.tail_ + Size
        /\ buffer.size_ = Size
        /\ buffer # pre

\* C7 amended: update_head cannot tell a full lap from no advance: with the
\* writer's position equal to the physical tail position, after Capacity
\* writes as after none, tail and size stay as they were.
C7_LapIndistinguishable ==
    (op = "update_head" /\ pre_dma.cnt \in {0, Size} /\ arg = pre_dma.pos) =>
        buffer = pre

C7_Witness ==
    /\ op = "update_head"
    /\ pre_dma.cnt = Size
    /\ arg = pre_dma.pos
    /\ arg % Size = pre.tail_ % Size
    /\ buffer = pre

\* C8: mend() - begin() == min(size(), Capacity - (head() mod Capacity));
\* mend() == begin() on an empty buffer and mend() == end() when the occupied
\* range does not wrap.
C8_MendDistance ==
    /\ mend(buffer) - begin(buffer)
           = Min(buffer.size_, Size - (head(buffer) % Size))
    /\ empty(buffer) => mend(buffer) = begin(buffer)
    /\ ~Wraps(buffer) => mend(buffer) = end(buffer)

C8_Witness ==
    /\ Wraps(buffer)
    /\ mend(buffer) - begin(buffer) = Size - (head(buffer) % Size)
    /\ mend(buffer) < end(buffer)

\* C9: buffer >> dest with size() < dest.size() changes neither the buffer
\* (size, tail, every slot) nor any element of dest.
C9_DrainFailureNoop ==
    (op = ">>seq" /\ pre.size_ < Len(seq_arg)) =>
        /\ buffer = pre
        /\ out_data = seq_arg

C9_Witness ==
    /\ op = ">>seq"
    /\ 0 < pre.size_
    /\ pre.size_ < Len(seq_arg)
    /\ \E i \in 1 .. pre.size_ : seq_arg[i] # at(pre, i - 1)
    /\ out_data = seq_arg

\* C10: buffer >> dest with size() >= dest.size() == k copies the k oldest
\* elements into dest in order and removes exactly those: size drops by k and
\* the rest of the content stays, also for k == size().
C10_DrainSuccess ==
    (op = ">>seq" /\ pre.size_ >= Len(seq_arg)) =>
        LET k == Len(seq_arg)
        IN  /\ out_data = SubSeq(content(pre), 1, k)
            /\ buffer.size_ = pre.size_ - k
            /\ content(buffer) = SubSeq(content(pre), k + 1, pre.size_)
            /\ buffer.tail_ = pre.tail_
            /\ buffer.data_ = pre.data_

C10_Witness ==
    /\ op = ">>seq"
    /\ Len(seq_arg) >= 2
    /\ pre.size_ = Len(seq_arg)
    /\ Wraps(pre)
    /\ out_data = content(pre)
    /\ empty(buffer)

RECURSIVE pops(_, _)
\* n consecutive pop() calls
pops(b, n) == IF n = 0 THEN b ELSE pops(pop(b), n - 1)

\* C11: buffer >> n leaves the buffer as n consecutive pop() calls do:
\* size() == max(old size - n, 0), the content loses its first
\* min(n, old size) elements, tail stays.
C11_ShiftOutIsPops ==
    op = ">>n" =>
        LET k == Min(arg, pre.size_)
        IN  /\ buffer = pops(pre, arg)
            /\ buffer.size_ = pre.size_ - k
            /\ content(buffer) = SubSeq(content(pre), k + 1, pre.size_)
            /\ buffer.tail_ = pre.tail_

C11_Witness ==
    /\ op = ">>n"
    /\ pre.size_ >= 2
    /\ arg >= pre.size_
    /\ Wraps(pre)
    /\ buffer.size_ = 0

\* C12: end() - begin() == size(), and walking from begin() to end() visits
\* size() elements, the i-th being backing slot (head() + i) mod Capacity.
C12_IterationOrder ==
    /\ end(buffer) - begin(buffer) = buffer.size_
    /\ Len(iterate(buffer)) = buffer.size_
    /\ iterate(buffer) =
           [i \in 1 .. buffer.size_ |->
               buffer.data_[(head(buffer) + i - 1) % Size]]

C12_Witness ==
    /\ Size >= 2
    /\ buffer.size_ = Size
    /\ head(buffer) % Size # 0
    /\ iterate(buffer)[1] = buffer.data_[head(buffer) % Size]
    /\ iterate(buffer)[1] # iterate(buffer)[Size]

\* C13: clear() sets tail and size to 0 (empty, head 0), keeps every backing
\* slot, and the next push stores into physical slot 0.
C13_ClearResets ==
    op = "clear" =>
        /\ buffer.tail_ = 0
        /\ buffer.size_ = 0
        /\ empty(buffer)
        /\ head(buffer) = 0
        /\ buffer.data_ = pre.data_
        /\ \A v \in Values :
               push(buffer, v).data_ = [buffer.data_ EXCEPT ![0] = v]

C13_Witness ==
    /\ op = "clear"
    /\ pre.size_ > 0
    /\ pre.tail_ % Size # 0
    /\ buffer.tail_ = 0

\* C14 as stated: no operation makes tail smaller.
C14_TailNeverDecreases == buffer.tail_ >= pre.tail_

\* C14 amended: every operation other than clear() leaves tail greater than
\* or equal to its value before; clear() sets it to 0.
C14_TailGrowsUnlessCleared ==
    /\ op # "clear" => buffer.tail_ >= pre.tail_
    /\ op = "clear" => buffer.tail_ = 0

C14_Witness ==
    /\ op = "update_head"
    /\ arg % Size < pre.tail_ % Size
    /\ buffer.tail_ > pre.tail_

\* C16: pop() on a non-empty buffer changes size only: tail and every backing
\* slot stay, so the popped value is still in its physical slot.
C16_PopKeepsStorage ==
    (op = "pop" /\ pre.size_ > 0) =>
        /\ buffer.tail_ = pre.tail_
        /\ buffer.data_ = pre.data_
        /\ buffer.size_ = pre.size_ - 1
        /\ buffer.data_[head(pre) % Size] = front(pre)

C16_Witness ==
    /\ op = "pop"
    /\ pre.size_ > 0
    /\ front(pre) # 0
    /\ buffer.data_[head(pre) % Size] = front(pre)

\* C18: with h = head() mod Capacity and m = mend() - begin(), logical
\* positions 0..m-1 sit in physical slots h..h+m-1 with h + m <= Capacity, and
\* either mend() == end() or logical position m sits in physical slot 0.
C18_MendContiguous ==
    LET h == head(buffer) % Size
        m == mend(buffer) - begin(buffer)
    IN  /\ \A i \in 0 .. m - 1 : data((head(buffer) + i) % Word) = h + i
        /\ h + m <= Size
        /\ \/ mend(buffer) = end(buffer)
           \/ data((head(buffer) + m) % Word) = 0

C18_Witness ==
    /\ mend(buffer) # end(buffer)
    /\ mend(buffer) >= 2
    /\ data((head(buffer) + mend(buffer)) % Word) = 0
    /\ data((head(buffer) + mend(buffer) - 1) % Word) = Size - 1

\* C15 as stated: buffer == sequence is true exactly when every element of
\* the sequence equals the buffer element at the same logical offset.
C15_EqualsElementwise ==
    op = "==" =>
        (ret = TRUE) <=>
            (\A i \in 1 .. Len(seq_arg) : seq_arg[i] = at(pre, i - 1))

RECURSIVE Reverse(_)
Reverse(s) == IF s = <<>> THEN <<>> ELSE Append(Reverse(Tail(s)), Head(s))

\* C17 as stated: the walk from rbegin() to rend() visits size() elements,
\* newest first: the reverse of the walk from begin() to end().
C17_ReverseMirrorsForward ==
    /\ Len(reverse_iterate(buffer)) = buffer.size_
    /\ reverse_iterate(buffer) = Reverse(iterate(buffer))

\* C19: while the writer completes fewer than Capacity writes between two
\* update_head calls and no more than Capacity written values are unread,
\* the buffer holds the oldest unread values in writing order and every
\* front() read is the oldest unread value: none lost, none read twice.
C19_DmaStreamIntact ==
    /\ dma.ok =>
           /\ buffer.size_ + dma.cnt = Len(dma.pending)
           /\ content(buffer) = SubSeq(dma.pending, 1, buffer.size_)
    /\ (op = "consume" /\ dma.ok) =>
           /\ ret = Head(pre_dma.pending)
           /\ dma.pending = Tail(pre_dma.pending)

C19_Witness ==
    /\ op = "consume"
    /\ dma.ok
    /\ pre.tail_ > Size
    /\ Wraps(pre)
    /\ dma.cnt > 0
    /\ ret = Head(pre_dma.pending)

C21_WrapPreservesBehaviour ==
    /\ (op = "push" /\ buffer.tail_ < pre.tail_) =>
           /\ content(buffer) = IF pre.size_ < Size
                                THEN Append(content(pre), arg)
                                ELSE Append(Tail(content(pre)), arg)
           /\ data(buffer.tail_) = (data(pre.tail_) + 1) % Size
    /\ (op = "update_head" /\ buffer.tail_ < pre.tail_) =>
           data(buffer.tail_) = arg % Size

\* C22: tail >= size in every state, so head() = tail - size does not
\* underflow, and head() never decreases except through clear().
C22_HeadNeverUnderflows ==
    /\ buffer.tail_ >= buffer.size_
    /\ head(buffer) = buffer.tail_ - buffer.size_
    /\ op # "clear" => head(buffer) >= head(pre)

C22_Witness ==
    /\ op = "push"
    /\ full(pre)
    /\ buffer.tail_ > buffer.size_
    /\ head(buffer) = head(pre) + 1

\* C23: right after update_head(p), tail mod Capacity == p mod Capacity, and
\* a second update_head(p) leaves tail, size and content as they are.
C23_UpdateHeadIdempotent ==
    op = "update_head" =>
        /\ buffer.tail_ % Size = arg % Size
        /\ update_head(buffer, arg) = buffer
        /\ content(update_head(buffer, arg)) = content(buffer)

C23_Witness ==
    /\ op = "update_head"
    /\ arg >= Size
    /\ buffer.tail_ > pre.tail_
    /\ buffer.size_ > pre.size_
    /\ update_head(buffer, arg) = buffer

\* C24: for Capacity >= 2, push(v) gives the same tail, size and content as
\* storing v into backing slot tail mod Capacity and then calling
\* update_head((tail + 1) mod Capacity), also on a full buffer.
C24_PushIsWriteThenUpdateHead ==
    (op = "push" /\ Size >= 2) =>
        LET written == [pre EXCEPT !.data_[pre.tail_ % Size] = arg]
            synced  == update_head(written, (pre.tail_ + 1) % Size)
        IN  /\ buffer.tail_ = synced.tail_
            /\ buffer.size_ = synced.size_
            /\ content(buffer) = content(synced)
            /\ buffer = synced

C24_Witness ==
    /\ op = "push"
    /\ Size >= 2
    /\ full(pre)
    /\ pre.tail_ % Size = Size - 1
    /\ Head(content(buffer)) # Head(content(pre))

====
